---- MODULE Spec2Model ----
(***************************************************************************)
(* A model of polytype's Context (src/src/context.rs): the substitution    *)
(* store, the fresh-variable watermark, unification with occurs check,     *)
(* confinement, merge with reification, and substitution reduction.        *)
(***************************************************************************)
EXTENDS Integers, Sequences, FiniteSets, TLC

VARIABLES
    ctx,        \* the Context self: [substitution, next]
    last,       \* the last operation completed on ctx and whether it returned Ok;
                \* of a recorded merge also self before it, other and what it returned,
                \* of a reduct_substitution also the context before it
    highest,    \* the highest id new_variable has returned on ctx or that was
                \* passed to extend on it, -1 when there is none
    change,     \* a ContextChange held by a caller: [delta, sacreds]
    tpsc,       \* a TypeSchema held by a caller, built under the absorbed context
    tpsc0       \* that TypeSchema before its reification

vars == <<ctx, last, highest, change, tpsc, tpsc0>>

----------------------------------------------------------------------------
(* Bounds *)

\* callers pass Variable(0) .. Variable(MaxVar - 1) as whole types
MaxVar == 1
\* new_variable and merge are not called once the watermark would pass MaxNext
MaxNext == 3

----------------------------------------------------------------------------
(* Types: Type::Variable(v) and Type::Constructed(name, args) *)

Variable(v) == <<"Variable", v>>
Constructed(n, args) == <<"Constructed", n, args>>

IsVariable(t) == t[1] = "Variable"
VarId(t) == t[2]
Name(t) == t[2]
Args(t) == t[3]

tint == Constructed("int", <<>>)
tbool == Constructed("bool", <<>>)
arrow(a, b) == Constructed("arrow", <<a, b>>)

VarIds == 0 .. (MaxVar - 1)
\* the types without arguments that callers pass in
Atoms == {Variable(v) : v \in VarIds} \cup {tint, tbool}
\* the variable ids and the argument types of the arrows callers pass in
ArgVarIds == {0, 1}
ArrowArgs == {Variable(v) : v \in ArgVarIds} \cup {tint}
\* the types callers pass in
Types == Atoms \cup {arrow(a, b) : a \in ArrowArgs, b \in ArrowArgs}
\* the types callers pass in where several operations and contexts interleave
SmallTypes == Atoms \cup ArrowArgs

Min(a, b) == IF a < b THEN a ELSE b
Max(a, b) == IF a > b THEN a ELSE b

RECURSIVE occurs(_, _)
\* Type::occurs: whether variable v appears in t as written
occurs(t, v) ==
    IF IsVariable(t)
    THEN VarId(t) = v
    ELSE \E i \in 1 .. Len(Args(t)) : occurs(Args(t)[i], v)

RECURSIVE TypeVars(_)
\* the variable ids that appear in t as written
TypeVars(t) ==
    IF IsVariable(t)
    THEN {VarId(t)}
    ELSE UNION {TypeVars(Args(t)[i]) : i \in 1 .. Len(Args(t))}

----------------------------------------------------------------------------
(* Substitution application, Type::apply / Type::apply_mut *)

Diverges == <<"Diverges">>

RECURSIVE applyFuel(_, _, _), HasDiverged(_)
\* t with every bound variable replaced by its binding, itself resolved.
\* A chain of more lookups than the store has keys repeats a key, and the
\* recursion of apply never ends there: that is Diverges.
applyFuel(t, sub, fuel) ==
    IF IsVariable(t)
    THEN IF VarId(t) \in DOMAIN sub
         THEN IF fuel = 0 THEN Diverges
              ELSE applyFuel(sub[VarId(t)], sub, fuel - 1)
         ELSE t
    ELSE Constructed(Name(t),
                     [i \in 1 .. Len(Args(t)) |-> applyFuel(Args(t)[i], sub, fuel)])

HasDiverged(t) ==
    \/ t = Diverges
    \/ /\ t[1] = "Constructed"
       /\ \E i \in 1 .. Len(Args(t)) : HasDiverged(Args(t)[i])

apply(t, sub) == applyFuel(t, sub, Cardinality(DOMAIN sub))

----------------------------------------------------------------------------
(* Context *)

EmptySub == <<>>

\* Context::default
default == [substitution |-> EmptySub, next |-> 0]

\* HashMap::insert
Insert(sub, v, t) == [k \in (DOMAIN sub) \cup {v} |-> IF k = v THEN t ELSE sub[k]]

\* extend that inserts the binding and forgets the watermark
extend_keeps_next(c, v, t) ==
    [substitution |-> Insert(c.substitution, v, t), next |-> c.next]

\* Context::extend
extend(c, v, t) ==
    [substitution |-> Insert(c.substitution, v, t),
     next |-> IF v >= c.next THEN v + 1 ELSE c.next]

\* Context::new_variable: the context after the call and the type returned
new_variable(c) ==
    [ctx |-> [c EXCEPT !.next = c.next + 1], ret |-> Variable(c.next)]

Ok == <<"Ok">>
Occurs(v) == <<"Occurs", v>>
Failure(a, b) == <<"Failure", a, b>>
\* the call does not return: the recursion of apply_mut never ends
NoReturn == <<"NoReturn">>

RECURSIVE unify_internal(_, _, _), unify_args(_, _, _, _)
\* the loop without apply_mut on the pair: bindings made for earlier
\* arguments are not seen by later ones
unify_args_stale(c, a1, a2, i) ==
    IF i > Min(Len(a1), Len(a2)) THEN [ctx |-> c, res |-> Ok]
    ELSE LET r == unify_internal(c, a1[i], a2[i])
         IN  IF r.res # Ok THEN r ELSE unify_args(r.ctx, a1, a2, i + 1)

\* unify_internal that binds a variable without the occurs check
unify_internal_unchecked(c, t1, t2) ==
    IF t1 = t2 THEN [ctx |-> c, res |-> Ok]
    ELSE IF IsVariable(t1)
    THEN [ctx |-> extend(c, VarId(t1), t2), res |-> Ok]
    ELSE IF IsVariable(t2)
    THEN [ctx |-> extend(c, VarId(t2), t1), res |-> Ok]
    ELSE IF Name(t1) # Name(t2)
    THEN [ctx |-> c, res |-> Failure(t1, t2)]
    ELSE unify_args(c, Args(t1), Args(t2), 1)

\* unify_internal that reports a symbol mismatch with its sides exchanged
unify_internal_swapped(c, t1, t2) ==
    IF t1 = t2 THEN [ctx |-> c, res |-> Ok]
    ELSE IF IsVariable(t1)
    THEN IF occurs(t2, VarId(t1))
         THEN [ctx |-> c, res |-> Occurs(VarId(t1))]
         ELSE [ctx |-> extend(c, VarId(t1), t2), res |-> Ok]
    ELSE IF IsVariable(t2)
    THEN IF occurs(t1, VarId(t2))
         THEN [ctx |-> c, res |-> Occurs(VarId(t2))]
         ELSE [ctx |-> extend(c, VarId(t2), t1), res |-> Ok]
    ELSE IF Name(t1) # Name(t2)
    THEN [ctx |-> c, res |-> Failure(t2, t1)]
    ELSE unify_args(c, Args(t1), Args(t2), 1)

\* unify_internal without the identity shortcut
unify_internal_no_shortcut(c, t1, t2) ==
    IF IsVariable(t1)
    THEN IF occurs(t2, VarId(t1))
         THEN [ctx |-> c, res |-> Occurs(VarId(t1))]
         ELSE [ctx |-> extend(c, VarId(t1), t2), res |-> Ok]
    ELSE IF IsVariable(t2)
    THEN IF occurs(t1, VarId(t2))
         THEN [ctx |-> c, res |-> Occurs(VarId(t2))]
         ELSE [ctx |-> extend(c, VarId(t2), t1), res |-> Ok]
    ELSE IF Name(t1) # Name(t2)
    THEN [ctx |-> c, res |-> Failure(t1, t2)]
    ELSE unify_args(c, Args(t1), Args(t2), 1)

\* Context::unify_internal: the context it leaves and its result
unify_internal(c, t1, t2) ==
    IF t1 = t2 THEN [ctx |-> c, res |-> Ok]
    ELSE IF IsVariable(t1)
    THEN IF occurs(t2, VarId(t1))
         THEN [ctx |-> c, res |-> Occurs(VarId(t1))]
         ELSE [ctx |-> extend(c, VarId(t1), t2), res |-> Ok]
    ELSE IF IsVariable(t2)
    THEN IF occurs(t1, VarId(t2))
         THEN [ctx |-> c, res |-> Occurs(VarId(t2))]
         ELSE [ctx |-> extend(c, VarId(t2), t1), res |-> Ok]
    ELSE IF Name(t1) # Name(t2)
    THEN [ctx |-> c, res |-> Failure(t1, t2)]
    ELSE unify_args(c, Args(t1), Args(t2), 1)

\* the loop over a1.into_iter().zip(a2), from pair i on
unify_args(c, a1, a2, i) ==
    IF i > Min(Len(a1), Len(a2)) THEN [ctx |-> c, res |-> Ok]
    ELSE LET r == unify_internal(c, apply(a1[i], c.substitution),
                                    apply(a2[i], c.substitution))
         IN  IF r.res # Ok THEN r ELSE unify_args(r.ctx, a1, a2, i + 1)

\* unify_fast without the apply_mut of its two inputs
unify_fast_unapplied(c, t1, t2) == unify_internal(c, t1, t2)

\* Context::unify_fast
unify_fast(c, t1, t2) ==
    LET a1 == apply(t1, c.substitution)
        a2 == apply(t2, c.substitution)
    IN  IF HasDiverged(a1) \/ HasDiverged(a2)
        THEN [ctx |-> c, res |-> NoReturn]
        ELSE unify_internal(c, a1, a2)

\* unify that writes the scratch copy back whatever the result
unify_writes_back(c, t1, t2) == unify_fast(c, t1, t2)

\* unify without the apply_mut of its two inputs
unify_unapplied(c, t1, t2) ==
    LET r == unify_internal(c, t1, t2)
    IN  IF r.res = Ok THEN r ELSE [ctx |-> c, res |-> r.res]

\* Context::unify: unify_internal on a clone, written back on success only
unify(c, t1, t2) ==
    LET a1 == apply(t1, c.substitution)
        a2 == apply(t2, c.substitution)
        r == unify_internal(c, a1, a2)
    IN  IF HasDiverged(a1) \/ HasDiverged(a2)
        THEN [ctx |-> c, res |-> NoReturn]
        ELSE IF r.res = Ok THEN r ELSE [ctx |-> c, res |-> r.res]

Range(s) == {s[i] : i \in 1 .. Len(s)}

\* confine that checks keep and leaves the store as it was
confine_unfiltered(c, keep) ==
    IF Range(keep) \subseteq DOMAIN c.substitution
    THEN [ctx |-> c, res |-> Ok]
    ELSE [ctx |-> c, res |-> <<"Panic">>]

\* Context::confine: indexing the store with an absent key panics
confine(c, keep) ==
    IF Range(keep) \subseteq DOMAIN c.substitution
    THEN [ctx |-> [c EXCEPT !.substitution =
                       [v \in Range(keep) |-> c.substitution[v]]],
          res |-> Ok]
    ELSE [ctx |-> c, res |-> <<"Panic">>]

\* ContextChange
ContextChange(delta, sacreds) == [delta |-> delta, sacreds |-> sacreds]

\* merge that does not spend watermark on the sacred ids of other
merge_compacted(c, other, sacreds) ==
    LET delta == c.next
        osub == other.substitution
        shifted == {delta + v : v \in DOMAIN osub}
    IN  [ctx |-> [substitution |->
                      [k \in (DOMAIN c.substitution) \cup shifted |->
                          IF k \in shifted THEN osub[k - delta]
                          ELSE c.substitution[k]],
                  next |-> c.next + other.next
                             - Cardinality({v \in sacreds : v < other.next})],
         ret |-> ContextChange(delta, sacreds)]

\* merge that inserts the bindings of other under their own keys
merge_unshifted(c, other, sacreds) ==
    LET delta == c.next
        osub == other.substitution
    IN  [ctx |-> [substitution |->
                      [k \in (DOMAIN c.substitution) \cup (DOMAIN osub) |->
                          IF k \in DOMAIN osub THEN osub[k]
                          ELSE c.substitution[k]],
                  next |-> c.next + other.next],
         ret |-> ContextChange(delta, sacreds)]

\* Context::merge: the context it leaves and the ContextChange it returns
merge(c, other, sacreds) ==
    LET delta == c.next
        osub == other.substitution
        shifted == {delta + v : v \in DOMAIN osub}
    IN  [ctx |-> [substitution |->
                      [k \in (DOMAIN c.substitution) \cup shifted |->
                          IF k \in shifted THEN osub[k - delta]
                          ELSE c.substitution[k]],
                  next |-> c.next + other.next],
         ret |-> ContextChange(delta, sacreds)]

RECURSIVE chase(_, _, _)
\* the while-let loop of reduct_substitution on value v: the end of its
\* chain, a panic at an unbound variable, or no end when the chain cycles
chase(v, sub, fuel) ==
    IF IsVariable(v)
    THEN IF VarId(v) \in DOMAIN sub
         THEN IF fuel = 0 THEN NoReturn ELSE chase(sub[VarId(v)], sub, fuel - 1)
         ELSE <<"Panic">>
    ELSE v

\* reduct_substitution that drops the detours: a binding to a variable
\* is removed instead of rewritten
reduct_substitution_dropping(c) ==
    LET sub == c.substitution
        ret == [k \in DOMAIN sub |-> chase(sub[k], sub, Cardinality(DOMAIN sub))]
    IN  IF \E k \in DOMAIN sub : ret[k] = NoReturn
        THEN [ctx |-> c, res |-> NoReturn]
        ELSE IF \E k \in DOMAIN sub : ret[k] = <<"Panic">>
        THEN [ctx |-> c, res |-> <<"Panic">>]
        ELSE [ctx |-> [c EXCEPT !.substitution =
                           [k \in {j \in DOMAIN sub : ~IsVariable(sub[j])} |-> sub[k]]],
              res |-> Ok]

\* Context::reduct_substitution
reduct_substitution(c) ==
    LET sub == c.substitution
        ret == [k \in DOMAIN sub |-> chase(sub[k], sub, Cardinality(DOMAIN sub))]
    IN  IF \E k \in DOMAIN sub : ret[k] = NoReturn
        THEN [ctx |-> c, res |-> NoReturn]
        ELSE IF \E k \in DOMAIN sub : ret[k] = <<"Panic">>
        THEN [ctx |-> c, res |-> <<"Panic">>]
        ELSE [ctx |-> [c EXCEPT !.substitution = ret], res |-> Ok]

----------------------------------------------------------------------------
(* ContextChange: reification *)

Monotype(tp) == <<"Monotype", tp>>
Polytype(variable, body) == <<"Polytype", variable, body>>

RECURSIVE reify_type(_, _)
\* ContextChange::reify_type
reify_type(ch, tp) ==
    IF ~IsVariable(tp)
    THEN Constructed(Name(tp),
                     [i \in 1 .. Len(Args(tp)) |-> reify_type(ch, Args(tp)[i])])
    ELSE IF VarId(tp) \in ch.sacreds THEN tp
    ELSE Variable(VarId(tp) + ch.delta)

RECURSIVE reify_typeschema(_, _)
\* ContextChange::reify_typeschema
reify_typeschema(ch, sc) ==
    IF sc[1] = "Monotype"
    THEN Monotype(reify_type(ch, sc[2]))
    ELSE Polytype(sc[2] + ch.delta, reify_typeschema(ch, sc[3]))

----------------------------------------------------------------------------
(* Inputs *)

RECURSIVE NewVars(_)
\* the context after n calls of new_variable on an empty one
NewVars(n) == IF n = 0 THEN default ELSE new_variable(NewVars(n - 1)).ctx

\* the types of T built from the variables c has issued
Under(c, T) == {t \in T : TypeVars(t) \subseteq 0 .. (c.next - 1)}

\* contexts built independently: new_variable calls, then at most one unify
Others ==
    LET fresh == {NewVars(n) : n \in 0 .. (MaxNext - 1)}
    IN  fresh \cup UNION {{unify(c, t1, t2).ctx :
                               t1 \in Under(c, SmallTypes), t2 \in Under(c, SmallTypes)} :
                           c \in fresh}

\* contexts built independently with a direct extend at the end
OthersExtended ==
    {extend(c, v, t) : c \in Others, v \in ArgVarIds, t \in SmallTypes}

\* the sacreds lists of merge, as sets: no id, or one id
SacredSets == {{}} \cup {{v} : v \in ArgVarIds}

\* the keep lists of confine: at most two ids, repeated or not
Ids == 0 .. (MaxNext - 1)
KeepLists == {<<>>} \cup {<<a>> : a \in Ids} \cup {<<a, b>> : a \in Ids, b \in Ids}

\* the ContextChanges merge returns and the schemas held under the absorbed context
Changes == {ContextChange(d, s) : d \in 0 .. MaxNext, s \in SacredSets}
Schemas ==
    {Monotype(t) : t \in Types}
        \cup {Polytype(v, Monotype(t)) : v \in ArgVarIds, t \in Types}

----------------------------------------------------------------------------
(* The state machine *)

\* highest, once the ids bound between store before and store after were
\* passed to extend
Extended(before, after) ==
    LET new == {highest} \cup ((DOMAIN after) \ (DOMAIN before))
    IN  CHOOSE x \in new : \A y \in new : x >= y

NoChange == ContextChange(0, {})
NoSchema == Monotype(tint)
Sub == ctx.substitution
Done(op, ok) ==
    [op |-> op, ok |-> ok, before |-> default, other |-> default, ret |-> NoChange]

Init ==
    /\ ctx = default
    /\ last = Done("default", TRUE)
    /\ highest = -1
    /\ change = NoChange
    /\ tpsc = NoSchema
    /\ tpsc0 = NoSchema

NewVariable ==
    /\ ctx.next < MaxNext
    /\ ctx' = new_variable(ctx).ctx
    /\ highest' = Max(highest, VarId(new_variable(ctx).ret))
    /\ last' = Done("new_variable", TRUE)
    /\ UNCHANGED <<change, tpsc, tpsc0>>

Extend ==
    \E v \in ArgVarIds, t \in SmallTypes :
        /\ ctx' = extend(ctx, v, t)
        /\ highest' = Max(highest, v)
        /\ last' = Done("extend", TRUE)
        /\ UNCHANGED <<change, tpsc, tpsc0>>

\* ctx.unify(&t1, &t2) with t1, t2 drawn from T
Unify(T) ==
    \E t1 \in Under(ctx, T), t2 \in Under(ctx, T) :
        LET r == unify(ctx, t1, t2)
        IN  /\ r.res # NoReturn
            /\ ctx' = r.ctx
            /\ highest' = Extended(Sub, r.ctx.substitution)
            /\ last' = Done("unify", r.res = Ok)
            /\ UNCHANGED <<change, tpsc, tpsc0>>

\* ctx.unify_fast(t1, t2) with t1, t2 drawn from T
UnifyFast(T) ==
    \E t1 \in Under(ctx, T), t2 \in Under(ctx, T) :
        LET r == unify_fast(ctx, t1, t2)
        IN  /\ r.res # NoReturn
            /\ ctx' = r.ctx
            /\ highest' = Extended(Sub, r.ctx.substitution)
            /\ last' = Done("unify_fast", r.res = Ok)
            /\ UNCHANGED <<change, tpsc, tpsc0>>

Confine ==
    \E keep \in KeepLists :
        LET r == confine(ctx, keep)
        IN  /\ r.res = Ok
            /\ ctx' = r.ctx
            /\ last' = Done("confine", TRUE)
            /\ UNCHANGED <<highest, change, tpsc, tpsc0>>

\* ctx.merge(other, sacreds), recorded in last when record is TRUE
Merge(record) ==
    \E other \in Others, sacreds \in SacredSets :
        LET m == merge(ctx, other, sacreds)
        IN  /\ ctx.next + other.next <= MaxNext
            /\ ctx' = m.ctx
            /\ last' = IF record
                       THEN [op |-> "merge", ok |-> TRUE, before |-> ctx,
                             other |-> other, ret |-> m.ret]
                       ELSE Done("merge", TRUE)
            /\ UNCHANGED <<highest, change, tpsc, tpsc0>>

ReductSubstitution ==
    LET r == reduct_substitution(ctx)
    IN  /\ r.res = Ok
        /\ ctx' = r.ctx
        /\ last' = [Done("reduct_substitution", TRUE) EXCEPT !.before = ctx]
        /\ UNCHANGED <<highest, change, tpsc, tpsc0>>

\* new_variable and unify on one context
Next == NewVariable \/ Unify(Types)

Spec == Init /\ [][Next]_vars

\* a context built by new_variable, extend and unify that absorbs others
NextBuild == NewVariable \/ Extend \/ Unify(SmallTypes) \/ Merge(FALSE)

SpecBuild == Init /\ [][NextBuild]_vars

\* contexts built by new_variable and unify, merged, each merge recorded
NextMerge == NewVariable \/ Unify(SmallTypes) \/ Merge(TRUE)

SpecMerge == Init /\ [][NextMerge]_vars

\* contexts built by new_variable, unify and unify_fast
NextFast == NewVariable \/ Unify(Types) \/ UnifyFast(Types)

SpecFast == Init /\ [][NextFast]_vars

\* contexts built by new_variable and unify, reduced now and then
NextReduct == NewVariable \/ Unify(Types) \/ ReductSubstitution

SpecReduct == Init /\ [][NextReduct]_vars

\* every operation but a direct extend
NextNoExtend ==
    \/ NewVariable
    \/ Unify(SmallTypes)
    \/ UnifyFast(SmallTypes)
    \/ Confine
    \/ Merge(FALSE)
    \/ ReductSubstitution

SpecNoExtend == Init /\ [][NextNoExtend]_vars

\* every operation of Context
NextAll ==
    \/ NewVariable
    \/ Extend
    \/ Unify(SmallTypes)
    \/ UnifyFast(SmallTypes)
    \/ Confine
    \/ Merge(FALSE)
    \/ ReductSubstitution

SpecAll == Init /\ [][NextAll]_vars

\* a caller holding a ContextChange and a TypeSchema reifies the schema
InitReify ==
    /\ ctx = default
    /\ last = Done("default", TRUE)
    /\ highest = -1
    /\ change \in Changes
    /\ tpsc \in Schemas
    /\ tpsc0 = tpsc

ReifyTypeschema ==
    /\ last.op = "default"
    /\ tpsc' = reify_typeschema(change, tpsc)
    /\ tpsc0' = tpsc
    /\ last' = Done("reify_typeschema", TRUE)
    /\ UNCHANGED <<ctx, highest, change>>

SpecReify == InitReify /\ [][ReifyTypeschema]_vars

----------------------------------------------------------------------------
(* Claims *)

IsError(res) == res[1] \in {"Occurs", "Failure"}

\* the store binds no variable to a type that, fully chased, contains it:
\* chasing every bound variable ends, in a type without bound variables
Acyclic(sub) ==
    \A v \in DOMAIN sub :
        LET t == apply(Variable(v), sub)
        IN  ~HasDiverged(t) /\ v \notin TypeVars(t)

\* C1: whenever unify(t1, t2) returns Occurs or Failure, the context after
\* the call is the context before it: same store, same watermark.
UnifyErrorKeepsContext ==
    \A t1 \in Types, t2 \in Types :
        LET r == unify(ctx, t1, t2)
        IN  IsError(r.res) =>
                /\ r.ctx.substitution = Sub
                /\ r.ctx.next = ctx.next

\* a failed unify has just returned on a context with bindings, and there
\* is a failing call whose unify_internal binds a variable before it fails
WitnessUnifyError ==
    /\ last = Done("unify", FALSE)
    /\ DOMAIN Sub # {}
    /\ \E t1 \in Types, t2 \in Types :
           /\ IsError(unify(ctx, t1, t2).res)
           /\ unify_fast(ctx, t1, t2).ctx # ctx

\* C2: in a context built by new_variable and unify, whenever unify(t1, t2)
\* returns Ok, t1 and t2 resolved against the resulting store are equal.
UnifyOkMakesEqual ==
    \A t1 \in Types, t2 \in Types :
        LET r == unify(ctx, t1, t2)
        IN  r.res = Ok =>
                apply(t1, r.ctx.substitution) = apply(t2, r.ctx.substitution)

\* a successful unify has just returned, and a unify of two different
\* arrows succeeds on the context it left by binding one more variable,
\* both arrows resolving to a type neither was written as
WitnessUnifyOk ==
    /\ last = Done("unify", TRUE)
    /\ DOMAIN Sub # {}
    /\ \E t1 \in Types, t2 \in Types :
           LET r == unify(ctx, t1, t2)
           IN  /\ ~IsVariable(t1) /\ ~IsVariable(t2) /\ t1 # t2
               /\ r.res = Ok
               /\ DOMAIN r.ctx.substitution # DOMAIN Sub
               /\ apply(t1, r.ctx.substitution) \notin {t1, t2}

\* C3 as claimed: unify(Variable(v), T) returns Ok and leaves v bound to T
\* iff T, chased through the store, does not contain v, and returns
\* Occurs(v) in every other case.
UnifyVariableAsClaimed ==
    \A v \in ArgVarIds, T \in Types :
        LET r == unify(ctx, Variable(v), T)
        IN  IF v \notin TypeVars(apply(T, Sub))
            THEN /\ r.res = Ok
                 /\ v \in DOMAIN r.ctx.substitution
                 /\ r.ctx.substitution[v] = T
            ELSE r.res = Occurs(v)

\* C3 as amended: for v not bound in the store and T that does not resolve
\* to Variable(v) itself, unify(Variable(v), T) returns Ok and leaves v bound
\* to T resolved against the store iff that resolved type does not contain
\* v, and returns Occurs(v) otherwise.
UnifyVariableBindsOrOccurs ==
    \A v \in ArgVarIds, T \in Types :
        LET r == unify(ctx, Variable(v), T)
            resolved == apply(T, Sub)
        IN  (v \notin DOMAIN Sub /\ resolved # Variable(v)) =>
                IF v \notin TypeVars(resolved)
                THEN /\ r.res = Ok
                     /\ v \in DOMAIN r.ctx.substitution
                     /\ r.ctx.substitution[v] = resolved
                ELSE r.res = Occurs(v)

\* a unify has just returned, and an unbound v occurs in some T only after
\* T is chased through the store: unify(Variable(v), T) returns Occurs(v),
\* while unify(Variable(v), T') binds v for another T'
WitnessUnifyVariable ==
    /\ last.op = "unify"
    /\ \E v \in ArgVarIds, T \in Types :
           /\ v \notin DOMAIN Sub
           /\ v \notin TypeVars(T)
           /\ v \in TypeVars(apply(T, Sub))
           /\ unify(ctx, Variable(v), T).res = Occurs(v)
    /\ \E v \in ArgVarIds, T \in Types :
           /\ v \notin DOMAIN Sub
           /\ apply(T, Sub) # Variable(v)
           /\ unify(ctx, Variable(v), T).res = Ok
           /\ unify(ctx, Variable(v), T).ctx.substitution[v] = apply(T, Sub)

\* C4: after any sequence of new_variable, unify, unify_fast, confine, merge
\* and reduct_substitution calls from empty contexts, the store is acyclic.
StoreAcyclic == Acyclic(Sub)

\* C5: the watermark is strictly greater than every id new_variable has
\* returned on the context and every id passed to extend on it.
WatermarkAboveIssued == ctx.next > highest

\* extend has just been called with an id at or above the watermark, on a
\* context that had issued or been given an id before
WitnessWatermark ==
    /\ last.op = "extend"
    /\ highest = ctx.next - 1
    /\ highest >= 1
    /\ Cardinality(DOMAIN Sub) >= 2

\* C6: the variable new_variable returns is unused: its id is no key of the
\* store, occurs in no type bound in the store, and was not returned before
\* (every id returned before is at most highest).
NewVariableUnused ==
    LET id == VarId(new_variable(ctx).ret)
    IN  /\ id \notin DOMAIN Sub
        /\ \A k \in DOMAIN Sub : id \notin TypeVars(Sub[k])
        /\ id > highest

\* C7: merge stores every binding of other under key delta + v when v is not
\* in sacreds, and under the unshifted key v when v is in sacreds, delta
\* being the watermark of self before the call.
MergeKeysAsClaimed ==
    last.op = "merge" =>
        \A v \in DOMAIN last.other.substitution :
            LET k == IF v \in last.ret.sacreds THEN v ELSE last.before.next + v
            IN  /\ k \in DOMAIN Sub
                /\ Sub[k] = last.other.substitution[v]

\* C8: after change = self.merge(other, []), for every t built under other,
\* the reified t resolved against the merged context is the reification of
\* t resolved against other before the merge.
MergePreservesMeaning ==
    (last.op = "merge" /\ last.ret.sacreds = {}) =>
        \A t \in Types :
            TypeVars(t) \subseteq 0 .. (last.other.next - 1) =>
                apply(reify_type(last.ret, t), Sub)
                    = reify_type(last.ret, apply(t, last.other.substitution))

\* the id a ContextChange gives to id n, as claimed
ClaimedId(ch, n) == IF n \in ch.sacreds THEN n ELSE n + ch.delta

RECURSIVE ClaimedType(_, _)
ClaimedType(ch, tp) ==
    IF IsVariable(tp)
    THEN Variable(ClaimedId(ch, VarId(tp)))
    ELSE Constructed(Name(tp),
                     [i \in 1 .. Len(Args(tp)) |-> ClaimedType(ch, Args(tp)[i])])

RECURSIVE ClaimedSchema(_, _)
ClaimedSchema(ch, sc) ==
    IF sc[1] = "Monotype"
    THEN Monotype(ClaimedType(ch, sc[2]))
    ELSE Polytype(ClaimedId(ch, sc[2]), ClaimedSchema(ch, sc[3]))

\* C9: reification leaves a sacred id unchanged and adds delta to any other
\* id, for the variables of a type and for the bound id of every Polytype.
ReifyNeverShiftsSacred ==
    last.op = "reify_typeschema" => tpsc = ClaimedSchema(change, tpsc0)

\* C10: after merge, for any sacreds, the watermark is the watermark before
\* plus the whole watermark of other, and new_variable returns that id.
MergeAdvancesWatermark ==
    last.op = "merge" =>
        /\ ctx.next = last.before.next + last.other.next
        /\ new_variable(ctx).ret = Variable(last.before.next + last.other.next)

\* a merge has just returned on a context that had bindings and a watermark
\* above 0, absorbing a context that binds an id listed in sacreds
WitnessMergeWatermark ==
    /\ last.op = "merge"
    /\ last.before.next > 0
    /\ DOMAIN last.before.substitution # {}
    /\ last.ret.sacreds # {}
    /\ last.ret.sacreds \subseteq DOMAIN last.other.substitution

\* C11 as claimed: for every list keep of keys of the store, confine(keep)
\* leaves exactly keep.len() entries, each a key of keep bound to the type
\* it was bound to before.
ConfineCountsKeep ==
    \A keep \in KeepLists :
        Range(keep) \subseteq DOMAIN Sub =>
            LET r == confine(ctx, keep)
            IN  /\ r.res = Ok
                /\ Cardinality(DOMAIN r.ctx.substitution) = Len(keep)
                /\ \A k \in DOMAIN r.ctx.substitution :
                       k \in Range(keep) /\ r.ctx.substitution[k] = Sub[k]

\* C11 as amended: for every list keep of keys of the store, confine(keep)
\* leaves one entry for each distinct id of keep, bound to the type it was
\* bound to before, and nothing else.
ConfineKeepsListed ==
    \A keep \in KeepLists :
        Range(keep) \subseteq DOMAIN Sub =>
            LET r == confine(ctx, keep)
            IN  /\ r.res = Ok
                /\ DOMAIN r.ctx.substitution = Range(keep)
                /\ Cardinality(DOMAIN r.ctx.substitution) = Cardinality(Range(keep))
                /\ \A k \in Range(keep) : r.ctx.substitution[k] = Sub[k]

\* a confine has just returned leaving two bindings, so that a keep list of
\* two distinct keys, one naming a key twice and one dropping a key all exist
WitnessConfine ==
    /\ last.op = "confine"
    /\ Cardinality(DOMAIN Sub) >= 2
    /\ \E keep \in KeepLists :
           /\ Len(keep) = 2 /\ Cardinality(Range(keep)) = 2
           /\ Range(keep) \subseteq DOMAIN Sub
    /\ \E keep \in KeepLists :
           /\ Len(keep) = 2 /\ Cardinality(Range(keep)) = 1
           /\ Range(keep) \subseteq DOMAIN Sub
           /\ confine(ctx, keep).ctx # ctx

\* C12: on a context reached from the empty one by new_variable and
\* successful unify calls, reduct_substitution never meets an unbound
\* variable while chasing a binding: it does not panic.
ReductNeverPanics == reduct_substitution(ctx).res # <<"Panic">>

\* C13: on an acyclic context on which reduct_substitution completes, the
\* call keeps the keys of the store and the watermark, and every bound
\* variable resolves, fully chased, to the same type after it as before.
ReductKeepsMeaning ==
    LET r == reduct_substitution(ctx)
    IN  (Acyclic(Sub) /\ r.res = Ok) =>
            /\ DOMAIN r.ctx.substitution = DOMAIN Sub
            /\ r.ctx.next = ctx.next
            /\ \A v \in DOMAIN Sub :
                   apply(Variable(v), r.ctx.substitution) = apply(Variable(v), Sub)

\* reduct_substitution has just rewritten a binding to a variable into the
\* end of its chain, on an acyclic store of two bindings or more
WitnessReduct ==
    /\ last.op = "reduct_substitution"
    /\ Acyclic(last.before.substitution)
    /\ Cardinality(DOMAIN Sub) >= 2
    /\ \E k \in DOMAIN Sub :
           /\ IsVariable(last.before.substitution[k])
           /\ ~IsVariable(Sub[k])
           /\ Sub[k] = apply(Variable(k), last.before.substitution)

RECURSIVE Pairs(_, _)
\* the pairs of sub-types at corresponding positions of a and b
Pairs(a, b) ==
    {<<a, b>>} \cup
        IF ~IsVariable(a) /\ ~IsVariable(b) /\ Name(a) = Name(b)
        THEN UNION {Pairs(Args(a)[i], Args(b)[i]) :
                        i \in 1 .. Min(Len(Args(a)), Len(Args(b)))}
        ELSE {}

NoMismatch == <<>>

RECURSIVE FirstMismatch(_, _), FirstMismatchArgs(_, _, _)
\* the first pair, left to right, of constructed sub-types of a and b at
\* corresponding positions whose symbols differ
FirstMismatch(a, b) ==
    IF a = b \/ IsVariable(a) \/ IsVariable(b) THEN NoMismatch
    ELSE IF Name(a) # Name(b) THEN <<a, b>>
    ELSE FirstMismatchArgs(Args(a), Args(b), 1)

FirstMismatchArgs(a1, a2, i) ==
    IF i > Min(Len(a1), Len(a2)) THEN NoMismatch
    ELSE LET m == FirstMismatch(a1[i], a2[i])
         IN  IF m # NoMismatch THEN m ELSE FirstMismatchArgs(a1, a2, i + 1)

\* C14 as claimed: when unify or unify_fast fails with Failure(a, b), a and b
\* are sub-types of the first and the second input at corresponding
\* positions, as written in the inputs, their variables not replaced.
FailureCarriesLiteral ==
    \A t1 \in Types, t2 \in Types :
        LET r == unify(ctx, t1, t2)
            rf == unify_fast(ctx, t1, t2)
        IN  /\ r.res[1] = "Failure" => <<r.res[2], r.res[3]>> \in Pairs(t1, t2)
            /\ rf.res[1] = "Failure" => <<rf.res[2], rf.res[3]>> \in Pairs(t1, t2)

\* C14 as amended: when unify or unify_fast fails with Failure(a, b), a and b
\* are constructed types with different symbols, the first such pair at
\* corresponding positions of the two inputs resolved against the store as
\* it stands when the mismatch is met: the store before the call and the
\* bindings made for the argument pairs to the left.
FailureCarriesResolved ==
    \A t1 \in Types, t2 \in Types :
        LET r == unify(ctx, t1, t2)
            rf == unify_fast(ctx, t1, t2)
            met == rf.ctx.substitution
        IN  (r.res[1] = "Failure" \/ rf.res[1] = "Failure") =>
                /\ r.res = rf.res
                /\ ~IsVariable(r.res[2]) /\ ~IsVariable(r.res[3])
                /\ Name(r.res[2]) # Name(r.res[3])
                /\ <<r.res[2], r.res[3]>>
                       = FirstMismatch(apply(t1, met), apply(t2, met))

\* a unify has just failed, and on this context a unify fails with a
\* Failure that carries a type written in neither input, met after the
\* call bound a variable for an argument pair to the left
WitnessFailure ==
    /\ last = Done("unify", FALSE)
    /\ DOMAIN Sub # {}
    /\ \E t1 \in Types, t2 \in Types :
           LET r == unify(ctx, t1, t2)
               rf == unify_fast(ctx, t1, t2)
           IN  /\ r.res[1] = "Failure"
               /\ <<r.res[2], r.res[3]>> \notin Pairs(t1, t2)
               /\ r.res[2] # r.res[3]
               /\ rf.ctx # ctx

\* C15: on any context reached by new_variable and unify calls, the empty
\* one included, unify(t, t) returns Ok and leaves the store and the
\* watermark as they were, for every type t.
UnifySelfIsNoOp ==
    \A t \in Types :
        LET r == unify(ctx, t, t)
        IN  /\ r.res = Ok
            /\ r.ctx.substitution = Sub
            /\ r.ctx.next = ctx.next

\* a unify has just returned Ok on a context with bindings, and some arrow
\* holds a bound and an unbound variable
WitnessUnifySelf ==
    /\ last = Done("unify", TRUE)
    /\ DOMAIN Sub # {}
    /\ \E t \in Types :
           /\ ~IsVariable(t)
           /\ TypeVars(t) \cap DOMAIN Sub # {}
           /\ TypeVars(apply(t, Sub)) # {}
           /\ unify(ctx, t, t).res = Ok

\* C16: on the same context with the same inputs, unify and unify_fast
\* return the same result, error payload included, and after Ok leave equal
\* contexts; the contexts differ only after an error, unify leaving the
\* context as it was and unify_fast a store that holds it and more.
UnifyFastAgrees ==
    \A t1 \in Types, t2 \in Types :
        LET r == unify(ctx, t1, t2)
            rf == unify_fast(ctx, t1, t2)
        IN  /\ r.res = rf.res
            /\ r.res = Ok => r.ctx = rf.ctx
            /\ r.ctx # rf.ctx =>
                   /\ IsError(r.res)
                   /\ r.ctx = ctx
                   /\ \A v \in DOMAIN Sub :
                          /\ v \in DOMAIN rf.ctx.substitution
                          /\ rf.ctx.substitution[v] = Sub[v]

\* a unify_fast has just failed on a context with bindings; on this
\* context an Ok call binds a variable, and a failing call leaves the two
\* operations with different contexts
WitnessUnifyFast ==
    /\ last = Done("unify_fast", FALSE)
    /\ DOMAIN Sub # {}
    /\ \E t1 \in Types, t2 \in Types :
           /\ unify_fast(ctx, t1, t2).res = Ok
           /\ unify_fast(ctx, t1, t2).ctx # ctx
    /\ \E t1 \in Types, t2 \in Types :
           /\ IsError(unify_fast(ctx, t1, t2).res)
           /\ unify_fast(ctx, t1, t2).ctx # unify(ctx, t1, t2).ctx

\* C17: in a context reached by new_variable and unify calls, a unify or
\* unify_fast call, Ok or not, removes and overwrites no binding: every
\* entry of the store before the call is in the store after it.
UnifyOnlyGrows ==
    \A t1 \in Types, t2 \in Types :
        LET r == unify(ctx, t1, t2)
            rf == unify_fast(ctx, t1, t2)
        IN  \A v \in DOMAIN Sub :
                /\ v \in DOMAIN r.ctx.substitution
                /\ r.ctx.substitution[v] = Sub[v]
                /\ v \in DOMAIN rf.ctx.substitution
                /\ rf.ctx.substitution[v] = Sub[v]

\* a unify_fast has just returned Ok leaving a binding, and a call whose
\* inputs hold a bound variable adds a binding on this context
WitnessOnlyGrows ==
    /\ last = Done("unify_fast", TRUE)
    /\ DOMAIN Sub # {}
    /\ \E t1 \in Types, t2 \in Types :
           /\ TypeVars(t1) \cap DOMAIN Sub # {}
           /\ DOMAIN unify_fast(ctx, t1, t2).ctx.substitution # DOMAIN Sub
           /\ DOMAIN unify(ctx, t1, t2).ctx.substitution # DOMAIN Sub

\* C18: for self and other each reached by new_variable, extend and unify
\* calls, self.merge(other, sacreds) removes and changes no binding self
\* held: every key of self's store is bound to the same type after it.
MergeKeepsBindings ==
    \A other \in Others \cup OthersExtended, sacreds \in SacredSets :
        LET merged == merge(ctx, other, sacreds).ctx.substitution
        IN  \A k \in DOMAIN Sub :
                k \in DOMAIN merged /\ merged[k] = Sub[k]

\* a merge has just inserted a binding (its key is above every id issued
\* or extended) into a context that held one, and a context to absorb
\* binds a key of self to another type under a sacred id
WitnessMergeKeeps ==
    /\ last.op = "merge"
    /\ \E k \in DOMAIN Sub : k > highest
    /\ \E k \in DOMAIN Sub : k <= highest
    /\ \E other \in Others \cup OthersExtended, sacreds \in SacredSets :
           \E k \in DOMAIN Sub :
               /\ k \in sacreds
               /\ k \in DOMAIN other.substitution
               /\ other.substitution[k] # Sub[k]

====
